---------------------------- MODULE Spec2Model ----------------------------
(***************************************************************************)
(* Blog summariser: the POST handler of the summarise route and its pure   *)
(* helpers generateSummary, translateToUrdu, extractTextFromHtml and       *)
(* calculateReadTime.                                                      *)
(*                                                                         *)
(* A JavaScript string is a sequence of one-character strings, so that     *)
(* lengths, regular-expression scans and substring tests are computed      *)
(* character by character.  A parsed HTML page (what cheerio.load returns) *)
(* is a record with the text of its <title>, the content of its og:title   *)
(* <meta> and the element tree of its <body>.                              *)
(***************************************************************************)
EXTENDS Integers, Sequences, FiniteSets, TLC

VARIABLES
    pc,          \* position in the handler, or phase of a helper's run
    body,        \* the decoded request body (request.json())
    url,         \* the destructured url
    fetchCalls,  \* number of axios.get calls of this invocation
    fetched,     \* what axios.get produced: a page or an error
    title,       \* the extracted title
    content,     \* the extracted content
    source,      \* the selector whose match became the content, or "body"
    summary,     \* the summary (input text of a translation run)
    urduSummary, \* the translated summary
    thrown,      \* the error the handler's catch block received
    responses    \* the responses returned so far, in order

vars == <<pc, body, url, fetchCalls, fetched, title, content, source,
          summary, urduSummary, thrown, responses>>

(***************************************************************************)
(* Characters and the JavaScript string primitives the helpers use.        *)
(***************************************************************************)
LowerLetters == <<"a","b","c","d","e","f","g","h","i","j","k","l","m","n","o","p","q","r","s","t",
      "u","v","w","x","y","z">>

UpperLetters == <<"A","B","C","D","E","F","G","H","I","J","K","L","M","N","O","P","Q","R","S","T",
      "U","V","W","X","Y","Z">>

Digits == {"0", "1", "2", "3", "4", "5", "6", "7", "8", "9"}

Range(s) == {s[i] : i \in 1..Len(s)}

\* \w of a regular expression without the u flag
WordChars == Range(LowerLetters) \cup Range(UpperLetters) \cup Digits \cup {"_"}

\* \s of a regular expression, and what String.prototype.trim removes
Whitespace == {" ", "\t", "\n", "\r", "\f"}

\* [\r\n] of the line split
LineBreaks == {"\r", "\n"}

\* the lowercase letter of each uppercase letter
LowerOf ==
    [c \in Range(UpperLetters) |->
        LowerLetters[CHOOSE i \in 1..Len(UpperLetters) : UpperLetters[i] = c]]

\* String.prototype.toLowerCase, one character
ToLowerChar(c) == IF c \in DOMAIN LowerOf THEN LowerOf[c] ELSE c

\* String.prototype.toLowerCase
ToLowerCase(s) == [i \in 1..Len(s) |-> ToLowerChar(s[i])]

\* String.prototype.trim
Trim(s) ==
    LET keep == {i \in 1..Len(s) : s[i] \notin Whitespace}
    IN  IF keep = {} THEN <<>>
        ELSE LET lo == CHOOSE i \in keep : \A j \in keep : i <= j
                 hi == CHOOSE i \in keep : \A j \in keep : j <= i
             IN  SubSeq(s, lo, hi)

\* String.prototype.includes
Includes(s, p) ==
    \E i \in 1..(Len(s) - Len(p) + 1) : SubSeq(s, i, i + Len(p) - 1) = p

\* the indices of s that satisfy Test, in increasing order
IndicesWhere(s, Test(_)) == SelectSeq([i \in 1..Len(s) |-> i], Test)

RECURSIVE Concat(_)
\* the concatenation of a sequence of strings (halved at each step)
Concat(ss) ==
    IF ss = <<>> THEN <<>>
    ELSE IF Len(ss) = 1 THEN ss[1]
    ELSE LET half == Len(ss) \div 2
         IN  Concat(SubSeq(ss, 1, half)) \o Concat(SubSeq(ss, half + 1, Len(ss)))

\* Array.prototype.join
Join(ss, sep) ==
    Concat([i \in 1..(2 * Len(ss) - 1) |->
               IF i % 2 = 1 THEN ss[(i + 1) \div 2] ELSE sep])

\* Array.from(new Set(ss)): the distinct elements in insertion order
Unique(ss) ==
    LET first == IndicesWhere(ss, LAMBDA i : \A j \in 1..(i - 1) : ss[j] # ss[i])
    IN  [k \in 1..Len(first) |-> ss[first[k]]]

\* Array.prototype.slice(0, n)
Slice0(ss, n) == SubSeq(ss, 1, IF Len(ss) < n THEN Len(ss) ELSE n)

\* the last index of the run of characters of cls that starts at i
RunEnd(s, i, cls) ==
    LET stops == {j \in (i + 1)..Len(s) : s[j] \notin cls}
    IN  IF stops = {} THEN Len(s)
        ELSE (CHOOSE j \in stops : \A m \in stops : j <= m) - 1

\* the last index of the run of characters outside cls that starts at i
RunEndNot(s, i, cls) ==
    LET stops == {j \in (i + 1)..Len(s) : s[j] \in cls}
    IN  IF stops = {} THEN Len(s)
        ELSE (CHOOSE j \in stops : \A m \in stops : j <= m) - 1

\* s.replace(/\s+/g, " "): every run of whitespace becomes one space
CollapseWhitespace(s) ==
    LET kept == IndicesWhere(s, LAMBDA i :
                    s[i] \notin Whitespace \/ i = 1 \/ s[i - 1] \notin Whitespace)
    IN  [k \in 1..Len(kept) |-> IF s[kept[k]] \in Whitespace THEN " " ELSE s[kept[k]]]

\* s.split(/[seps]+/): the pieces between the runs of separators, empty
\* pieces at either end included
Split(s, seps) ==
    LET runStarts == IndicesWhere(s, LAMBDA i :
                         s[i] \in seps /\ (i = 1 \/ s[i - 1] \notin seps))
        runEnds == IndicesWhere(s, LAMBDA i :
                         s[i] \in seps /\ (i = Len(s) \/ s[i + 1] \notin seps))
        n == Len(runStarts)
    IN  [k \in 1..(n + 1) |->
            SubSeq(s, IF k = 1 THEN 1 ELSE runEnds[k - 1] + 1,
                      IF k = n + 1 THEN Len(s) ELSE runStarts[k] - 1)]

\* s.split(/\s+/).length
WhitespaceTokenCount(s) == Len(Split(s, Whitespace))

(***************************************************************************)
(* The noise blocklist of generateSummary and extractTextFromHtml.          *)
(***************************************************************************)
NoisePlaceholder == <<"p","l","a","c","e","h","o","l","d","e","r">>

NoiseNoScript == <<"n","o","-","s","c","r","i","p","t">>

NoiseBusinessInsider ==
    <<"B","u","s","i","n","e","s","s"," ","I","n","s","i","d","e","r"," ","t","e","l",
      "l","s"," ","t","h","e"," ","i","n","n","o","v","a","t","i","v","e"," ","s",
      "t","o","r","i","e","s"," ","y","o","u"," ","w","a","n","t"," ","t","o"," ",
      "k","n","o","w">>

NoisePatterns == {NoisePlaceholder, NoiseNoScript, NoiseBusinessInsider}

\* the i flag: the patterns and the text are compared in lowercase
NoisePatternsLowered == {ToLowerCase(p) : p \in NoisePatterns}

\* s.match(/placeholder|no-script|Business Insider tells .../i) is not null
MatchesNoise(s) ==
    LET lowered == ToLowerCase(s)
    IN  \E p \in NoisePatternsLowered : Includes(lowered, p)

(***************************************************************************)
(* generateSummary                                                         *)
(***************************************************************************)
SentenceEnds == {".", "!", "?"}

SentenceStops == SentenceEnds \cup {"\n"}

RECURSIVE MatchSentencesFrom(_, _)
MatchSentencesFrom(s, i) ==
    IF i > Len(s) THEN <<>>
    ELSE IF s[i] \in SentenceStops THEN MatchSentencesFrom(s, i + 1)
    ELSE LET e == RunEndNot(s, i, SentenceStops)
             last == IF e < Len(s) /\ s[e + 1] \in SentenceEnds THEN e + 1 ELSE e
         IN  <<SubSeq(s, i, last)>> \o MatchSentencesFrom(s, last + 1)

\* content.match(/[^.!?\n]+[.!?]?/g) || []
MatchSentences(s) == MatchSentencesFrom(s, 1)

MinSentenceLength == 30

MaxSummarySentences == 3

\* the filter of generateSummary
SummaryKeeps(s) == Len(s) > MinSentenceLength /\ ~MatchesNoise(s)

TrimAll(ss) == [i \in 1..Len(ss) |-> Trim(ss[i])]

\* sentences.map(trim), deduplicated through a Set, then filtered
uniqueSentences(text) ==
    SelectSeq(Unique(TrimAll(MatchSentences(text))), SummaryKeeps)

generateSummaryNoSlice(text) == Join(uniqueSentences(text), <<" ">>)

generateSummary(text) ==
    Join(Slice0(uniqueSentences(text), MaxSummarySentences), <<" ">>)

(***************************************************************************)
(* translateToUrdu                                                         *)
(***************************************************************************)
\* the Urdu letters of the dictionary's values, named by code point; none
\* of them is a \w character
UrduThe == <<"U+06CC", "U+06C1">>

UrduIs == <<"U+06C1", "U+06D2">>

KeyThe == <<"t","h","e">>

KeyIs == <<"i","s">>

\* the own properties of the translationDict object
translationDict == (KeyThe :> UrduThe) @@ (KeyIs :> UrduIs)

KeyConstructor == <<"c","o","n","s","t","r","u","c","t","o","r">>

KeyProto == <<"_","_","p","r","o","t","o","_","_">>

\* String(Object) and String(Object.prototype): what the replace callback's
\* return value becomes when the lookup finds an inherited property
ObjectFunctionText == <<"f","u","n","c","t","i","o","n"," ","O","b","j","e","c","t","(",")"," ","{"," ",
      "[","n","a","t","i","v","e"," ","c","o","d","e","]"," ","}">>

ObjectPrototypeText == <<"[","o","b","j","e","c","t"," ","O","b","j","e","c","t","]">>

\* the properties translationDict inherits from Object.prototype whose names
\* are lowercase \w+ words, with the text String() gives their values
inheritedProperties ==
    (KeyConstructor :> ObjectFunctionText) @@ (KeyProto :> ObjectPrototypeText)

\* translationDict[cleanWord] on the object literal: own properties first,
\* then the prototype chain
Lookup(cleanWord) ==
    IF cleanWord \in DOMAIN translationDict THEN translationDict[cleanWord]
    ELSE IF cleanWord \in DOMAIN inheritedProperties
         THEN inheritedProperties[cleanWord]
    ELSE <<>>

\* the callback of text.replace: translationDict[cleanWord] || word
ReplaceWord(word) ==
    LET found == Lookup(ToLowerCase(word))
    IN  IF found # <<>> THEN found ELSE word

\* text.replace(/\w+/, callback), the g flag forgotten: only the first run
\* of \w characters is replaced
translateToUrduFirstOnly(text) ==
    LET starts == IndicesWhere(text, LAMBDA i : text[i] \in WordChars)
    IN  IF starts = <<>> THEN text
        ELSE LET e == RunEnd(text, starts[1], WordChars)
             IN  SubSeq(text, 1, starts[1] - 1)
                     \o ReplaceWord(SubSeq(text, starts[1], e))
                     \o SubSeq(text, e + 1, Len(text))

\* text.replace(/\w+/g, callback): every maximal run of \w characters is
\* replaced by the callback's result, every other character is copied
translateToUrdu(text) ==
    LET starts == IndicesWhere(text, LAMBDA i :
                      text[i] \notin WordChars \/ i = 1 \/ text[i - 1] \notin WordChars)
    IN  Concat([k \in 1..Len(starts) |->
                   IF text[starts[k]] \in WordChars
                   THEN ReplaceWord(SubSeq(text, starts[k],
                                           RunEnd(text, starts[k], WordChars)))
                   ELSE <<text[starts[k]]>>])

(***************************************************************************)
(* Parsed pages and extractTextFromHtml                                    *)
(***************************************************************************)
\* a text node
TextNode(t) == [tag |-> "#text", classes |-> {}, id |-> "", kids |-> <<>>, text |-> t]

\* an element with its class list, id attribute and children
Element(tag, classes, id, kids) ==
    [tag |-> tag, classes |-> classes, id |-> id, kids |-> kids, text |-> <<>>]

TagSelector(name) == [by |-> "tag", name |-> name]

ClassSelector(name) == [by |-> "class", name |-> name]

IdSelector(name) == [by |-> "id", name |-> name]

\* whether an element matches a simple selector
Matches(node, sel) ==
    /\ node.tag # "#text"
    /\ CASE sel.by = "tag" -> node.tag = sel.name
         [] sel.by = "class" -> sel.name \in node.classes
         [] sel.by = "id" -> node.id = sel.name

\* "script, style, nav, header, footer, aside, img, .no-script, .placeholder"
noiseSelectors ==
    {TagSelector("script"), TagSelector("style"), TagSelector("nav"),
     TagSelector("header"), TagSelector("footer"), TagSelector("aside"),
     TagSelector("img"), ClassSelector("no-script"), ClassSelector("placeholder")}

contentSelectors ==
    <<TagSelector("article"), ClassSelector("post-content"),
      ClassSelector("entry-content"), ClassSelector("content"),
      TagSelector("main"), ClassSelector("main-content"),
      IdSelector("content"), ClassSelector("post-body")>>

RECURSIVE TextOf(_)
\* the text content of a node: its own text and its descendants', in order
TextOf(node) ==
    IF node.tag = "#text" THEN node.text
    ELSE Concat([i \in 1..Len(node.kids) |-> TextOf(node.kids[i])])

\* $(selection).text(): the text contents of the selected elements, joined
TextOfAll(nodes) == Concat([i \in 1..Len(nodes) |-> TextOf(nodes[i])])

RECURSIVE SelectAll(_, _)
\* $(selector): every element of the tree that matches, in document order
SelectAll(nodes, sel) ==
    IF nodes = <<>> THEN <<>>
    ELSE LET n == Head(nodes)
         IN  (IF Matches(n, sel) THEN <<n>> ELSE <<>>)
                 \o SelectAll(n.kids, sel) \o SelectAll(Tail(nodes), sel)

IsNoise(node) == \E sel \in noiseSelectors : Matches(node, sel)

RECURSIVE RemoveNoise(_)
\* $(noise selectors).remove(): the tree without the matching elements
RemoveNoise(nodes) ==
    IF nodes = <<>> THEN <<>>
    ELSE LET n == Head(nodes)
         IN  IF IsNoise(n) THEN RemoveNoise(Tail(nodes))
             ELSE <<[n EXCEPT !.kids = RemoveNoise(n.kids)]>>
                      \o RemoveNoise(Tail(nodes))

\* a loop without its break: the last selector with a match wins
LastMatchingSelector(nodes) ==
    LET hits == {k \in 1..Len(contentSelectors) :
                     SelectAll(nodes, contentSelectors[k]) # <<>>}
    IN  IF hits = {} THEN 0
        ELSE CHOOSE k \in hits : \A m \in hits : m <= k

\* the index of the first content selector with a match, 0 when none has one
FirstMatchingSelector(nodes) ==
    LET hits == {k \in 1..Len(contentSelectors) :
                     SelectAll(nodes, contentSelectors[k]) # <<>>}
    IN  IF hits = {} THEN 0
        ELSE CHOOSE k \in hits : \A m \in hits : k <= m

\* content after the selector loop: the text of the first selector that
\* matches an element, "" when no selector matches
LoopContent(nodes) ==
    LET k == FirstMatchingSelector(nodes)
    IN  IF k = 0 THEN <<>> ELSE TextOfAll(SelectAll(nodes, contentSelectors[k]))

\* content after the fallback: if (!content) content = $("body").text()
SelectedContent(nodes) ==
    IF LoopContent(nodes) = <<>> THEN TextOfAll(nodes) ELSE LoopContent(nodes)

\* which query produced the content: a content selector, or "body"
ContentSource(page) ==
    LET nodes == RemoveNoise(page.body)
    IN  IF LoopContent(nodes) = <<>> THEN [by |-> "tag", name |-> "body"]
        ELSE contentSelectors[FirstMatchingSelector(nodes)]

\* a filter that only drops the empty lines
LineKeepsAnyText(line) == Len(line) > 0

\* the filter of the lines
LineKeeps(line) == Len(line) > 0 /\ ~MatchesNoise(line)

\* content.replace(/\s+/g, " ").split(/[\r\n]+/).map(trim).filter(...)
lines(text) ==
    SelectSeq(TrimAll(Split(CollapseWhitespace(text), LineBreaks)), LineKeeps)

\* Array.from(new Set(lines))
uniqueLines(text) == Unique(lines(text))

\* the content as returned: uniqueLines.join(" ")
NormalizeContent(text) == Join(uniqueLines(text), <<" ">>)

extractTextFromHtml(page) ==
    NormalizeContent(SelectedContent(RemoveNoise(page.body)))

(***************************************************************************)
(* calculateReadTime                                                       *)
(***************************************************************************)
averageWPM == 200

\* Math.ceil(wordCount / averageWPM)
calculateReadTime(wordCount) == (wordCount + averageWPM - 1) \div averageWPM

(***************************************************************************)
(* The request handler POST                                                *)
(***************************************************************************)
\* the title fallbacks: <title>, the first <h1>, the og:title meta, a literal
UntitledArticle == <<"U","n","t","i","t","l","e","d"," ","A","r","t","i","c","l","e">>

ExtractTitle(page) ==
    LET fromTitle == Trim(page.title)
        headings  == SelectAll(page.body, TagSelector("h1"))
        fromH1    == IF headings = <<>> THEN <<>> ELSE Trim(TextOf(headings[1]))
    IN  IF fromTitle # <<>> THEN fromTitle
        ELSE IF fromH1 # <<>> THEN fromH1
        ELSE IF page.ogTitle # <<>> THEN page.ogTitle
        ELSE UntitledArticle

\* s.substring(0, n)
Substring0(s, n) == SubSeq(s, 1, IF Len(s) < n THEN Len(s) ELSE n)

MinContentLength == 100

\* a handler that tests only !content
InsufficientContentNoLength(c) == c = <<>>

\* !content || content.length < 100
InsufficientContent(c) == c = <<>> \/ Len(c) < MinContentLength

MaxTitleLength == 200

MaxContentLength == 5000

\* new URL(url) does not throw.  Without a base the parser needs a scheme
\* (a letter, then letters, digits, "+", "-" or "."), then ":"; a special
\* scheme also needs a host, which holds no whitespace.
SpecialSchemes == {<<"h","t","t","p">>, <<"h","t","t","p","s">>, <<"f","t","p">>, <<"w","s">>, <<"w","s","s">>}

SchemeChars == Range(LowerLetters) \cup Range(UpperLetters) \cup Digits \cup {"+", "-", "."}

IsWellFormedUrl(s) ==
    LET t == Trim(s)
        colons == {i \in 1..Len(t) : t[i] = ":"}
    IN  /\ colons # {}
        /\ LET c == CHOOSE i \in colons : \A j \in colons : i <= j
               scheme == ToLowerCase(SubSeq(t, 1, c - 1))
               rest == SubSeq(t, c + 1, Len(t))
               slashes == IF rest # <<>> /\ rest[1] \in {"/", "\\"}
                          THEN RunEnd(rest, 1, {"/", "\\"}) ELSE 0
               after == SubSeq(rest, slashes + 1, Len(rest))
               host == IF after = <<>> THEN <<>>
                       ELSE IF after[1] \in {"/", "\\", "?", "#"} THEN <<>>
                       ELSE SubSeq(after, 1, RunEndNot(after, 1, {"/", "\\", "?", "#"}))
           IN  /\ c > 1
               /\ t[1] \in Range(LowerLetters) \cup Range(UpperLetters)
               /\ \A k \in 1..(c - 1) : t[k] \in SchemeChars
               /\ scheme \in SpecialSchemes =>
                      host # <<>> /\ \A k \in 1..Len(host) : host[k] \notin Whitespace

\* the errors the catch block tells apart: axios.isAxiosError(error),
\* error.code and error.response?.status (0 when there is no response)
Error(cause, isAxios, code, status) ==
    [cause |-> cause, isAxiosError |-> isAxios, code |-> code, status |-> status]

NoError == Error("none", FALSE, "", 0)

\* request.json() rejects on a body that is not JSON
BodySyntaxError == Error("body is not JSON", FALSE, "", 0)

\* const { url } = body throws a TypeError on the JSON value null
DestructureError == Error("body is null", FALSE, "", 0)

\* what axios.get rejects with.  With timeout: 15000 and the default
\* transitional options a timeout is an AxiosError of code ECONNABORTED
\* that carries no response.
TimeoutError == Error("timeout", TRUE, "ECONNABORTED", 0)

FetchErrors ==
    {Error("dns", TRUE, "ENOTFOUND", 0),
     Error("refused", TRUE, "ECONNREFUSED", 0),
     Error("not found", TRUE, "ERR_BAD_REQUEST", 404),
     Error("forbidden", TRUE, "ERR_BAD_REQUEST", 403),
     Error("server error", TRUE, "ERR_BAD_RESPONSE", 500),
     Error("redirects", TRUE, "ERR_FR_TOO_MANY_REDIRECTS", 0),
     TimeoutError}

ErrorResponse(status, message) == [status |-> status, body |-> [error |-> message]]

\* a catch block without the ECONNABORTED case
ErrorToResponseNoTimeout(error) ==
    IF error.isAxiosError /\ error.code \in {"ENOTFOUND", "ECONNREFUSED"}
    THEN ErrorResponse(400, "Could not connect to the website. Please check the URL.")
    ELSE IF error.isAxiosError /\ error.status = 404
    THEN ErrorResponse(400, "The webpage was not found (404).")
    ELSE IF error.isAxiosError /\ error.status = 403
    THEN ErrorResponse(400,
             "Access forbidden. The website may be blocking automated requests.")
    ELSE ErrorResponse(500, "Failed to process the blog. Please try again.")

\* the catch block of POST
ErrorToResponse(error) ==
    IF error.isAxiosError /\ error.code \in {"ENOTFOUND", "ECONNREFUSED"}
    THEN ErrorResponse(400, "Could not connect to the website. Please check the URL.")
    ELSE IF error.isAxiosError /\ error.status = 404
    THEN ErrorResponse(400, "The webpage was not found (404).")
    ELSE IF error.isAxiosError /\ error.status = 403
    THEN ErrorResponse(400,
             "Access forbidden. The website may be blocking automated requests.")
    ELSE IF error.isAxiosError /\ error.code = "ECONNABORTED"
    THEN ErrorResponse(400, "Request timeout. The website took too long to respond.")
    ELSE ErrorResponse(500, "Failed to process the blog. Please try again.")

\* the processedBlog record of a successful invocation
ProcessedBlog(u, t, c, s, translated) ==
    [status |-> 200,
     body |-> [url |-> u,
               title |-> Substring0(t, MaxTitleLength),
               content |-> Substring0(c, MaxContentLength),
               summary |-> s,
               urduSummary |-> translated,
               wordCount |-> WhitespaceTokenCount(c),
               readTime |-> calculateReadTime(WhitespaceTokenCount(c))]]

(***************************************************************************)
(* Requests, pages and fetch outcomes the handler is run on.               *)
(***************************************************************************)
\* the decoded request body: not JSON at all, the JSON value null, or an
\* object with or without a url member
RequestBody(json, hasUrl, u) == [json |-> json, hasUrl |-> hasUrl, url |-> u]

UrlEmpty == <<>>

UrlNotAUrl == <<"n","o","t"," ","a"," ","u","r","l">>

UrlNoScheme == <<"e","x","a","m","p","l","e",".","c","o","m","/","p","o","s","t">>

UrlNoHost == <<"h","t","t","p",":","/","/">>

UrlBlog == <<"h","t","t","p","s",":","/","/","e","x","a","m","p","l","e",".","c","o","m","/",
      "p","o","s","t">>

UrlOther == <<"h","t","t","p",":","/","/","b","l","o","g",".","e","x","a","m","p","l","e",".",
      "c","o","m","/","a","?","b","=","1">>

MalformedUrls == {UrlNotAUrl, UrlNoScheme, UrlNoHost}

WellFormedUrls == {UrlBlog, UrlOther}

RequestBodies ==
    {RequestBody("malformed", FALSE, <<>>), RequestBody("null", FALSE, <<>>),
     RequestBody("object", FALSE, <<>>)}
        \cup {RequestBody("object", TRUE, u) :
                  u \in {UrlEmpty} \cup MalformedUrls \cup WellFormedUrls}

Page(t, og, nodes) == [title |-> t, ogTitle |-> og, body |-> nodes]

NoPage == Page(<<>>, <<>>, <<>>)

SentenceA == <<"T","h","e"," ","f","i","r","s","t"," ","s","e","n","t","e","n","c","e"," ","o",
      "f"," ","t","h","e"," ","p","o","s","t"," ","i","s"," ","l","o","n","g"," ",
      "e","n","o","u","g","h",".">>

SentenceB == <<"A"," ","s","e","c","o","n","d"," ","s","e","n","t","e","n","c","e"," ","i","s",
      " ","t","h","e"," ","n","e","x","t"," ","o","n","e"," ","t","o"," ","b","e",
      " ","k","e","p","t","!">>

SentenceC == <<"I","s"," ","t","h","e"," ","t","h","i","r","d"," ","s","e","n","t","e","n","c",
      "e"," ","a","l","s","o"," ","k","e","p","t"," ","i","n"," ","t","h","e"," ",
      "s","u","m","m","a","r","y","?">>

SentenceD == <<"T","h","e"," ","f","o","u","r","t","h"," ","l","o","n","g"," ","s","e","n","t",
      "e","n","c","e"," ","i","s"," ","n","e","v","e","r"," ","i","n"," ","t","h",
      "e"," ","s","u","m","m","a","r","y",".">>

\* four long sentences, 190 characters
LongText ==
    SentenceA \o <<" ">> \o SentenceB \o <<"\n">> \o SentenceC \o <<" ">> \o SentenceD

\* more than 100 characters, no sentence longer than 30
ShortSentencesText ==
    <<"O","n","e"," ","s","h","o","r","t"," ","b","i","t","."," ","T","w","o"," ","s",
      "h","o","r","t"," ","b","i","t","s","."," ","T","h","r","e","e"," ","s","h",
      "o","r","t"," ","b","i","t","s","."," ","F","o","u","r"," ","s","h","o","r",
      "t"," ","b","i","t","s","."," ","F","i","v","e"," ","s","h","o","r","t"," ",
      "b","i","t","s","."," ","S","i","x"," ","s","h","o","r","t"," ","b","i","t",
      "s","."," ","S","e","v","e","n",".">>

\* long enough, but one blocklisted word in it
NoisyText == SentenceA \o <<" ","I","m","a","g","e"," ","p","l","a","c","e","h","o","l","d","e","r","."," ">> \o SentenceB \o <<" ">> \o SentenceC

NineText == <<"S","e","n","t","e","n","c","e"," ","o","n","e"," ","i","s"," ","h","e","r","e",
      "."," ","S","e","n","t","e","n","c","e"," ","t","w","o"," ","i","s"," ","h",
      "e","r","e"," ","a","l","s","o","."," ","S","h","o","r","t","."," ">>

NineContent == <<"S","e","n","t","e","n","c","e"," ","o","n","e"," ","i","s"," ","h","e","r","e",
      "."," ","S","e","n","t","e","n","c","e"," ","t","w","o"," ","i","s"," ","h",
      "e","r","e"," ","a","l","s","o","."," ","S","h","o","r","t",".">>

Heading == Element("h1", {}, "", <<TextNode(<<"T","h","e"," ","H","e","a","d","i","n","g">>)>>)

Menu == Element("nav", {}, "", <<TextNode(<<"H","o","m","e"," ","A","b","o","u","t">>)>>)

\* <html><body><article>Sentence one is here. Sentence two is here also.
\* Short. </article></body></html>
NinePage == Page(<<>>, <<>>, <<Element("article", {}, "", <<TextNode(NineText)>>)>>)

HandlerBodies ==
    {<<Menu, Element("article", {}, "", <<Heading, TextNode(LongText)>>)>>,
     <<Element("div", {}, "", <<TextNode(LongText)>>)>>,
     <<Element("main", {}, "", <<TextNode(ShortSentencesText)>>)>>,
     <<Element("div", {"post-body"}, "", <<TextNode(NoisyText)>>)>>,
     <<Element("div", {"content"}, "", <<TextNode(SentenceA \o <<" ">> \o SentenceB)>>)>>,
     NinePage.body}

HandlerPages ==
    {Page(t, og, nodes) : t \in {<<>>, <<" ","M","y"," ","B","l","o","g"," ">>}, og \in {<<>>, <<"S","h","a","r","e","d"," ","T","i","t","l","e">>},
                          nodes \in HandlerBodies}

(***************************************************************************)
(* The steps of POST.  request.json() and axios.get are the two awaits;    *)
(* what follows the fetch runs to the handler's return without a pause and  *)
(* is split at its three return statements.                                *)
(***************************************************************************)
Init ==
    /\ pc = "start"
    /\ body = RequestBody("object", FALSE, <<>>)
    /\ url = <<>>
    /\ fetchCalls = 0
    /\ fetched = NoPage
    /\ title = <<>>
    /\ content = <<>>
    /\ source = TagSelector("")
    /\ summary = <<>>
    /\ urduSummary = <<>>
    /\ thrown = NoError
    /\ responses = <<>>

Return(response) ==
    /\ responses' = Append(responses, response)
    /\ pc' = "done"

\* lines 104-115: decode the body, destructure url, reject a missing url
ReadBody ==
    /\ pc = "start"
    /\ \E b \in RequestBodies :
        /\ body' = b
        /\ IF b.json = "malformed"
           THEN thrown' = BodySyntaxError /\ pc' = "catch"
                    /\ UNCHANGED <<url, responses>>
           ELSE IF b.json = "null"
           THEN thrown' = DestructureError /\ pc' = "catch"
                    /\ UNCHANGED <<url, responses>>
           ELSE IF ~b.hasUrl \/ b.url = <<>>
           THEN Return(ErrorResponse(400, "URL is required"))
                    /\ UNCHANGED <<url, thrown>>
           ELSE url' = b.url /\ pc' = "validate"
                    /\ UNCHANGED <<thrown, responses>>
    /\ UNCHANGED <<fetchCalls, fetched, title, content, source, summary, urduSummary>>

\* lines 118-128: new URL(url)
ValidateUrl ==
    /\ pc = "validate"
    /\ IF IsWellFormedUrl(url)
       THEN pc' = "fetch" /\ UNCHANGED responses
       ELSE Return(ErrorResponse(400, "Invalid URL format"))
    /\ UNCHANGED <<body, url, fetchCalls, fetched, title, content, source,
                   summary, urduSummary, thrown>>

\* lines 133-147: axios.get resolves with the page or rejects
FetchPage ==
    /\ pc = "fetch"
    /\ fetchCalls' = fetchCalls + 1
    /\ \/ \E page \in HandlerPages :
            fetched' = page /\ pc' = "extract" /\ UNCHANGED thrown
       \/ \E error \in FetchErrors :
            thrown' = error /\ pc' = "catch" /\ UNCHANGED fetched
    /\ UNCHANGED <<body, url, title, content, source, summary, urduSummary, responses>>

\* lines 148-168: the title, the content, the check of its length
ExtractContent ==
    /\ pc = "extract"
    /\ title' = ExtractTitle(fetched)
    /\ content' = extractTextFromHtml(fetched)
    /\ source' = ContentSource(fetched)
    /\ IF InsufficientContent(content')
       THEN Return(ErrorResponse(400,
                "Could not extract sufficient content from the webpage"))
       ELSE pc' = "summarize" /\ UNCHANGED responses
    /\ UNCHANGED <<body, url, fetchCalls, fetched, summary, urduSummary, thrown>>

\* lines 171-181: the summary, the check that it is not empty
Summarize ==
    /\ pc = "summarize"
    /\ summary' = generateSummary(content)
    /\ IF summary' = <<>>
       THEN Return(ErrorResponse(400, "Could not generate summary from the content"))
       ELSE pc' = "respond" /\ UNCHANGED responses
    /\ UNCHANGED <<body, url, fetchCalls, fetched, title, content, source,
                   urduSummary, thrown>>

\* lines 184-205: the translation, the metrics, the success response
Respond ==
    /\ pc = "respond"
    /\ urduSummary' = translateToUrdu(summary)
    /\ Return(ProcessedBlog(url, title, content, summary, urduSummary'))
    /\ UNCHANGED <<body, url, fetchCalls, fetched, title, content, source,
                   summary, thrown>>

\* lines 206-261: the catch block
HandleError ==
    /\ pc = "catch"
    /\ Return(ErrorToResponse(thrown))
    /\ UNCHANGED <<body, url, fetchCalls, fetched, title, content, source,
                   summary, urduSummary, thrown>>

Next ==
    \/ ReadBody
    \/ ValidateUrl
    \/ FetchPage
    \/ ExtractContent
    \/ Summarize
    \/ Respond
    \/ HandleError

Spec == Init /\ [][Next]_vars

(***************************************************************************)
(* Properties of the handler (specification Spec).                         *)
(***************************************************************************)
ValidationMessages == {"URL is required", "Invalid URL format"}

TimeoutMessage == "Request timeout. The website took too long to respond."

ExtractionMessage == "Could not extract sufficient content from the webpage"

SummaryMessage == "Could not generate summary from the content"

SuccessFields ==
    {"url", "title", "content", "summary", "urduSummary", "wordCount", "readTime"}

IsErrorOnly(r) == DOMAIN r.body = {"error"} /\ r.status \in {400, 500}

IsCompleteBlog(r) ==
    /\ r.status = 200
    /\ DOMAIN r.body = SuccessFields
    /\ Len(r.body.content) >= 100
    /\ r.body.summary # <<>>

\* the decoded body carries no url, or one that is not a well-formed URL
UrlMissingOrMalformed ==
    \/ body.json = "null"
    \/ body.json = "object" /\ ~body.hasUrl
    \/ body.json = "object" /\ body.hasUrl /\ body.url \in {UrlEmpty} \cup MalformedUrls

\* C1: an invocation whose url is missing or is not a well-formed URL ends
\* with a validation error of status 400 and has called axios.get zero
\* times; no fetch happens before the URL is validated.
C1_InvalidUrlIsValidationError ==
    /\ fetchCalls > 0 => IsWellFormedUrl(url)
    /\ (pc = "done" /\ UrlMissingOrMalformed) =>
           /\ fetchCalls = 0
           /\ Len(responses) = 1
           /\ responses[1].status = 400
           /\ responses[1].body.error \in ValidationMessages

\* C2: a finished invocation has returned exactly one response, which is
\* either a complete success record (all seven fields, content of at least
\* 100 characters, a non-empty summary) or an error and nothing else; a
\* success record is returned only when no step failed.
C2_CompleteRecordOrError ==
    /\ Len(responses) = (IF pc = "done" THEN 1 ELSE 0)
    /\ \A i \in 1..Len(responses) :
           LET r == responses[i]
           IN  /\ IsErrorOnly(r) \/ IsCompleteBlog(r)
               /\ ~(IsErrorOnly(r) /\ IsCompleteBlog(r))
               /\ IsCompleteBlog(r) =>
                      /\ body.url \in WellFormedUrls
                      /\ thrown = NoError
                      /\ fetchCalls = 1
                      /\ Len(content) >= 100
                      /\ summary # <<>>
                      /\ r.body.summary = summary
                      /\ r.body.urduSummary = urduSummary

\* a success record was returned
C2_Witness == pc = "done" /\ Len(responses) = 1 /\ IsCompleteBlog(responses[1])

IsNinePage == fetched.body = NinePage.body

NineSummary == <<"S","e","n","t","e","n","c","e"," ","o","n","e"," ","i","s"," ","h","e","r","e",
      "."," ","S","e","n","t","e","n","c","e"," ","t","w","o"," ","i","s"," ","h",
      "e","r","e"," ","a","l","s","o",".">>

\* C9 as stated: on the page <article>Sentence one is here. Sentence two is
\* here also. Short. </article> the handler returns a success record with
\* that content, the summary of the two first sentences, the word count of
\* the content and readTime = ceil(wordCount / 200).
C9_NinePageSucceeds ==
    (pc = "done" /\ IsNinePage) =>
        /\ content = NineContent
        /\ IsCompleteBlog(responses[1])
        /\ responses[1].body.summary = NineSummary
        /\ responses[1].body.wordCount = WhitespaceTokenCount(NineContent)
        /\ responses[1].body.readTime = 1

\* C9 amended: on that page the extraction yields "Sentence one is here.
\* Sentence two is here also. Short." (55 characters, 10 words), which is
\* under the 100 characters the handler asks for, so the invocation ends
\* with the extraction error of status 400 and no summary is made; the
\* summary of that content would be empty, its three sentences having 21,
\* 26 and 6 characters.
C9_NinePageIsInsufficient ==
    (pc = "done" /\ IsNinePage) =>
        /\ content = NineContent
        /\ Len(content) = 55
        /\ WhitespaceTokenCount(content) = 10
        /\ calculateReadTime(WhitespaceTokenCount(content)) = 1
        /\ responses = <<ErrorResponse(400, ExtractionMessage)>>
        /\ summary = <<>>
        /\ generateSummary(content) = <<>>
        /\ [i \in 1..3 |-> Len(TrimAll(MatchSentences(content))[i])] = <<21, 26, 6>>

C9_Witness == pc = "done" /\ IsNinePage /\ content = NineContent

\* C10: a fetch that times out ends the invocation with the timeout error
\* of status 400; nothing is extracted, summarised or translated, no
\* success record is returned, and axios.get is called at most once.
C10_TimeoutIsTerminal ==
    /\ fetchCalls <= 1
    /\ thrown.cause = "timeout" =>
           /\ pc \in {"catch", "done"}
           /\ content = <<>> /\ summary = <<>> /\ urduSummary = <<>>
           /\ pc = "done" => responses = <<ErrorResponse(400, TimeoutMessage)>>

C10_Witness == pc = "done" /\ thrown.cause = "timeout" /\ fetchCalls = 1

(***************************************************************************)
(* generateSummary on its own (specification SpecSummary): the content is  *)
(* any run of at most MaxFragments fragments.                              *)
(***************************************************************************)
MaxFragments == 3

\* all sequences of at most n members of S
SeqsUpTo(S, n) == UNION {[1..k -> S] : k \in 0..n}

\* 30 characters with the full stop: not kept
ThirtyChars == <<"E","x","a","c","t","l","y"," ","t","h","i","r","t","y"," ","c","h","a","r","a",
      "c","t","e","r","s"," ","n","o","w",".">>

\* 31 characters with the full stop: kept
ThirtyOneChars == <<"H","a","s"," ","t","h","i","r","t","y","-","o","n","e"," ","c","h","a","r","a",
      "c","t","e","r","s"," ","h","e","r","e",".">>

SummaryFragments ==
    {SentenceA \o <<" ">> \o SentenceB \o <<"\n">>,
     <<" ">> \o SentenceC,
     SentenceD \o <<" ">> \o SentenceA,
     ThirtyChars \o ThirtyOneChars \o <<" ">>,
     <<"S","h","o","r","t","."," ">>,
     <<"S","t","i","l","l"," ","g","o","i","n","g"," ","o","n"," ","a","n","d"," ">>,
     <<"R","e","a","d"," ","o","u","r"," ","N","o","-","S","c","r","i","p","t"," ","n",
      "o","t","i","c","e"," ","i","n"," ","t","h","i","s"," ","l","o","n","g"," ",
      "s","e","n","t","e","n","c","e","."," ">>}

SummaryInputs == {Concat(fs) : fs \in SeqsUpTo(SummaryFragments, MaxFragments)}

InitSummary ==
    /\ pc = "content"
    /\ content \in SummaryInputs
    /\ body = RequestBody("object", FALSE, <<>>)
    /\ url = <<>>
    /\ fetchCalls = 0
    /\ fetched = NoPage
    /\ title = <<>>
    /\ source = TagSelector("")
    /\ summary = <<>>
    /\ urduSummary = <<>>
    /\ thrown = NoError
    /\ responses = <<>>

RunGenerateSummary ==
    /\ pc = "content"
    /\ summary' = generateSummary(content)
    /\ pc' = "summarized"
    /\ UNCHANGED <<body, url, fetchCalls, fetched, title, content, source,
                   urduSummary, thrown, responses>>

NextSummary == RunGenerateSummary

SpecSummary == InitSummary /\ [][NextSummary]_vars

\* where a candidate starts: a character that ends no sentence, at the start
\* of the text or right after one that does
CandidateStarts(s) ==
    {i \in 1..Len(s) : s[i] \notin {".", "!", "?", "\n"}
                          /\ (i = 1 \/ s[i - 1] \in {".", "!", "?", "\n"})}

\* the trimmed candidate that starts at i: up to the next ".", "!", "?" (kept)
\* or the next line break or the end of the text (left out)
CandidateAt(s, i) ==
    LET e == CHOOSE j \in i..Len(s) :
                 /\ j = Len(s) \/ s[j + 1] \in {".", "!", "?", "\n"}
                 /\ \A k \in i..j : s[k] \notin {".", "!", "?", "\n"}
    IN  Trim(SubSeq(s, i, IF e < Len(s) /\ s[e + 1] # "\n" THEN e + 1 ELSE e))

\* the candidates of s by the place where each starts
Candidates(s) == [i \in CandidateStarts(s) |-> CandidateAt(s, i)]

\* the candidates that pass the filter
Survivors(cands) ==
    {c \in {cands[i] : i \in DOMAIN cands} :
        /\ Len(c) > 30
        /\ \A p \in NoisePatterns : ~Includes(ToLowerCase(c), ToLowerCase(p))}

FirstOccurrence(cands, c) ==
    CHOOSE i \in DOMAIN cands :
        cands[i] = c /\ \A j \in DOMAIN cands : cands[j] = c => i <= j

\* C3: the summary is the single-space join of at most 3 candidates, each
\* longer than 30 characters once trimmed, none matching the blocklist, all
\* distinct, in the order of their first occurrence in the content, and they
\* are the first ones that pass the filter; it is empty exactly when no
\* candidate passes.
C3_SummaryIsFirstThreeSurvivors ==
    pc = "summarized" =>
        LET cands == Candidates(content)
            S == Survivors(cands)
            first == [c \in S |-> FirstOccurrence(cands, c)]
        IN  /\ (summary = <<>>) <=> (S = {})
            /\ \E n \in 0..3 : \E picks \in [1..n -> S] :
                   /\ summary = Join(picks, <<" ">>)
                   /\ \A i, j \in 1..n : i < j => first[picks[i]] < first[picks[j]]
                   /\ \A c \in S : (\A i \in 1..n : picks[i] # c) =>
                          n = 3 /\ first[picks[3]] < first[c]

\* more than three candidates pass the filter and a candidate occurs twice
C3_Witness ==
    /\ pc = "summarized"
    /\ Cardinality(Survivors(Candidates(content))) > 3
    /\ \E i, j \in CandidateStarts(content) :
           i # j /\ CandidateAt(content, i) = CandidateAt(content, j)
    /\ summary # <<>>

(***************************************************************************)
(* translateToUrdu on its own (specification SpecTranslate): the text is   *)
(* any run of at most MaxTokens tokens, translated once and then again.    *)
(***************************************************************************)
MaxTokens == 4

TranslateTokens ==
    {<<"t","h","e">>, <<"T","h","e">>, <<"I","S">>, <<"t","h","i","s">>, <<"b","l","o","g">>, <<"c","o","n","s","t","r","u","c","t","o","r">>,
     <<" ">>, <<","," ">>, <<"!">>}

TranslateInputs == {Concat(ts) : ts \in SeqsUpTo(TranslateTokens, MaxTokens)}

InitTranslate ==
    /\ pc = "text"
    /\ summary \in TranslateInputs
    /\ body = RequestBody("object", FALSE, <<>>)
    /\ url = <<>>
    /\ fetchCalls = 0
    /\ fetched = NoPage
    /\ title = <<>>
    /\ content = <<>>
    /\ source = TagSelector("")
    /\ urduSummary = <<>>
    /\ thrown = NoError
    /\ responses = <<>>

\* urduSummary = translateToUrdu(summary)
RunTranslate ==
    /\ pc = "text"
    /\ urduSummary' = translateToUrdu(summary)
    /\ pc' = "translated"
    /\ UNCHANGED <<body, url, fetchCalls, fetched, title, content, source,
                   summary, thrown, responses>>

\* the translation is translated again
RunTranslateAgain ==
    /\ pc = "translated"
    /\ summary' = urduSummary
    /\ urduSummary' = translateToUrdu(urduSummary)
    /\ pc' = "retranslated"
    /\ UNCHANGED <<body, url, fetchCalls, fetched, title, content, source,
                   thrown, responses>>

NextTranslate == RunTranslate \/ RunTranslateAgain

SpecTranslate == InitTranslate /\ [][NextTranslate]_vars

\* no replacement value of the dictionary is one of its keys
NoValueIsAKey ==
    \A k \in DOMAIN translationDict : translationDict[k] \notin DOMAIN translationDict

\* C7: with no replacement value among the dictionary's keys, translating a
\* translation again changes nothing.
C7_TranslateIsIdempotent ==
    [][(NoValueIsAKey /\ pc = "translated") => urduSummary' = urduSummary]_vars

\* a text with two dictionary words in it was translated twice
C7_Witness ==
    /\ pc = "retranslated"
    /\ Includes(summary, UrduThe \o <<" ">> \o UrduIs)
    /\ urduSummary = summary

\* where the maximal runs of \w characters of a text start
WordStarts(text) ==
    {i \in 1..Len(text) :
        text[i] \in WordChars /\ (i = 1 \/ text[i - 1] \notin WordChars)}

\* the run of \w characters that starts at i
WordAt(text, i) ==
    SubSeq(text, i, CHOOSE j \in i..Len(text) :
                        /\ j = Len(text) \/ text[j + 1] \notin WordChars
                        /\ \A k \in i..j : text[k] \in WordChars)

\* the text with each run whose lowercased form is a key of the dictionary
\* replaced by the stored value and everything else left as it is
Substituted(text) ==
    LET pieces == IndicesWhere(text, LAMBDA i :
                      text[i] \notin WordChars \/ i \in WordStarts(text))
    IN  Concat([k \in 1..Len(pieces) |->
                   LET i == pieces[k]
                   IN  IF text[i] \notin WordChars THEN <<text[i]>>
                       ELSE IF ToLowerCase(WordAt(text, i)) \in DOMAIN translationDict
                       THEN translationDict[ToLowerCase(WordAt(text, i))]
                       ELSE WordAt(text, i)])

\* C8: translateToUrdu replaces each maximal run of word characters whose
\* lowercased form is a dictionary key by the stored value, leaves every
\* other run unchanged and copies everything between the runs in place.
C8_OnlyDictionaryWordsChange ==
    pc = "translated" => urduSummary = Substituted(summary)

(***************************************************************************)
(* extractTextFromHtml on its own (specification SpecExtract): the body of *)
(* the page is any run of at most MaxElements elements.                    *)
(***************************************************************************)
MaxElements == 3

Div(classes, id, t) == Element("div", classes, id, <<TextNode(t)>>)

TextAlpha == <<"A","l","p","h","a"," ","o","n","e",".">>

TextBeta == <<"B","e","t","a"," ","t","w","o",".">>

PageElements ==
    {Element("article", {}, "", <<TextNode(TextAlpha)>>),
     Element("article", {}, "", <<>>),
     Element("article", {}, "",
             <<Element("script", {}, "", <<TextNode(<<"v","a","r"," ","x",";">>)>>), TextNode(<<"G","a","m","m","a">>)>>),
     Element("nav", {}, "", <<Element("article", {}, "", <<TextNode(<<"M","e","n","u">>)>>)>>),
     Div({"content"}, "", TextBeta),
     Div({"post-content"}, "", <<"\n"," ","S","e","e","n"," "," ","t","w","i","c","e"," ","\n","S","e","e","n"," ",
      "t","w","i","c","e","\r","\n","O","n","c","e","\t">>),
     Div({"entry-content", "wide"}, "", <<"N","O","-","S","C","R","I","P","T"," ","z","o","n","e">>),
     Div({"main-content"}, "", <<"D","e","l","t","a"," ","p","l","a","c","e">>),
     Div({}, "content", <<"h","o","l","d","e","r"," ","t","e","x","t">>),
     Div({"post-body"}, "", <<" ">>),
     Div({}, "", <<"P","l","a","i","n">>),
     Element("main", {}, "", <<Div({"placeholder"}, "", <<"a","d">>), TextNode(<<"M","a","i","n">>)>>)}

ExtractPages ==
    {Page(<<>>, <<>>, nodes) : nodes \in SeqsUpTo(PageElements, MaxElements)}

InitExtract ==
    /\ pc = "page"
    /\ fetched \in ExtractPages
    /\ body = RequestBody("object", FALSE, <<>>)
    /\ url = <<>>
    /\ fetchCalls = 0
    /\ title = <<>>
    /\ content = <<>>
    /\ source = TagSelector("")
    /\ summary = <<>>
    /\ urduSummary = <<>>
    /\ thrown = NoError
    /\ responses = <<>>

\* content = extractTextFromHtml(html)
RunExtract ==
    /\ pc = "page"
    /\ content' = extractTextFromHtml(fetched)
    /\ source' = ContentSource(fetched)
    /\ pc' = "extracted"
    /\ UNCHANGED <<body, url, fetchCalls, fetched, title, summary, urduSummary,
                   thrown, responses>>

NextExtract == RunExtract

SpecExtract == InitExtract /\ [][NextExtract]_vars

\* the order in which the content selectors are to be tried
SelectorOrder ==
    <<TagSelector("article"), ClassSelector("post-content"),
      ClassSelector("entry-content"), ClassSelector("content"),
      TagSelector("main"), ClassSelector("main-content"),
      IdSelector("content"), ClassSelector("post-body")>>

BodySource == TagSelector("body")

\* the page as the selectors see it, and the text of what the k-th matches
Visible == RemoveNoise(fetched.body)

Region(k) == SelectAll(Visible, SelectorOrder[k])

RegionText(k) == TextOfAll(Region(k))

\* the selectors that match an element, and the first of them (0 if none)
Matching == {k \in 1..Len(SelectorOrder) : Region(k) # <<>>}

FirstMatch == IF Matching = {} THEN 0 ELSE CHOOSE k \in Matching : \A m \in Matching : k <= m

\* C4 as stated: a page with an article region and a .content region of
\* different text yields the article's normalized text and not the
\* .content region's, and the body text is used only when no selector
\* matches: when one does, the content is the text of the first that does.
C4_ArticleAlwaysWins ==
    pc = "extracted" =>
        /\ (/\ Region(1) # <<>>
            /\ Region(4) # <<>>
            /\ NormalizeContent(RegionText(1)) # NormalizeContent(RegionText(4))) =>
               /\ content = NormalizeContent(RegionText(1))
               /\ content # NormalizeContent(RegionText(4))
        /\ FirstMatch # 0 => content = NormalizeContent(RegionText(FirstMatch))

\* C4 amended: the selectors are tried in the fixed order on the page
\* without its noise elements, and the first one that matches an element
\* wins: when its text is not empty the content is that text, normalized,
\* whatever the later selectors match (so an article region with text
\* always wins over a .content region); the body text is used when no
\* selector matches or when the first one that matches has no text.
C4_FirstMatchWithTextWins ==
    pc = "extracted" =>
        LET k == FirstMatch
        IN  IF k # 0 /\ RegionText(k) # <<>>
            THEN /\ source = SelectorOrder[k]
                 /\ content = NormalizeContent(RegionText(k))
            ELSE /\ source = BodySource
                 /\ content = NormalizeContent(TextOfAll(Visible))

\* an article with text and a .content region with another text
C4_Witness ==
    /\ pc = "extracted"
    /\ RegionText(1) # <<>>
    /\ Region(4) # <<>>
    /\ NormalizeContent(RegionText(4)) # content
    /\ content = NormalizeContent(RegionText(1))
    /\ content # <<>>

\* the number of places where p occurs in s
Occurrences(s, p) ==
    Cardinality({i \in 1..(Len(s) - Len(p) + 1) : SubSeq(s, i, i + Len(p) - 1) = p})

\* the lines of the selected text, each with its whitespace collapsed and
\* trimmed, the empty ones left out
TrimmedLines(text) ==
    LET raw == Split(text, LineBreaks)
    IN  SelectSeq([i \in 1..Len(raw) |-> Trim(CollapseWhitespace(raw[i]))],
                  LAMBDA line : line # <<>>)

\* C5: a line that the selected text holds more than once is in the
\* extracted content exactly once (on texts with no blocklisted phrase).
C5_NoDuplicateLines ==
    pc = "extracted" =>
        LET text == SelectedContent(Visible)
            ls == TrimmedLines(text)
        IN  ~MatchesNoise(text) =>
                \A i, j \in 1..Len(ls) :
                    (i < j /\ ls[i] = ls[j]) => Occurrences(content, ls[i]) = 1

\* C6: the extracted content holds no blocklisted phrase, whatever the case
\* of its letters.
C6_NoBlocklistedPhrase ==
    pc = "extracted" =>
        LET lowered == ToLowerCase(content)
        IN  \A p \in {ToLowerCase(q) : q \in NoisePatterns} :
                \A i \in 1..(Len(content) - Len(p) + 1) :
                    SubSeq(lowered, i, i + Len(p) - 1) # p

\* the selected text held a blocklisted phrase
C6_Witness ==
    /\ pc = "extracted"
    /\ MatchesNoise(CollapseWhitespace(SelectedContent(Visible)))
    /\ content = <<>>

====
